---- MODULE Spec2Model ----
(***************************************************************************)
(* A model of registry.py, the font registry builder: the Path Resolver    *)
(* (get_html_path), the Link Extractor (extract_github_link), the Metadata *)
(* Reader (get_metadata_entries) and the Registry Builder (main).          *)
(*                                                                         *)
(* A Python str is a sequence of one-character strings.  An Optional value *)
(* is a sequence of length 0 (None) or 1 (the value).                      *)
(*                                                                         *)
(* Four specifications share the module:                                   *)
(*   Spec        main() over a bounded family of directory trees           *)
(*   SpecReader  get_metadata_entries, one action per line read            *)
(*   SpecLink    extract_github_link, one action per statement             *)
(*   SpecValue   the value expression of line 61, one action per call      *)
(***************************************************************************)
EXTENDS Integers, Sequences, FiniteSets

VARIABLES
    \* ---- main() ----
    fs,          \* the google-fonts tree on disk (read-only during a run)
    pc,          \* position of main: "scan" | "iter" | "write" | "done" | "aborted"
    dirIdx,      \* index into DIRS of the category of the outer loop
    todo,        \* entries of dir_path.iterdir() not yet visited
    font_data,   \* the registry under construction: font_name -> entry
    html_path,   \* html_path of the last loop body (Optional path)
    cur,         \* <<dir_name, font_name>> of the last loop body, or <<>>
    abortCause,  \* "none" | "iterdir" | "html" | "metadata" | "write"
    outFile,     \* Optional content of fonti_registry.json
    writes,      \* number of times the output path was opened for writing
    \* ---- get_metadata_entries ----
    rEntries,    \* the requested field names
    rFile,       \* the metadata file: [exists, lines, good, raises]
    rIdx,        \* number of lines consumed by the for loop
    values,      \* the dict values, as a function on its key set
    rResult,     \* the returned list
    rpc,         \* "start" | "loop" | "ret" | "done"
    \* ---- extract_github_link ----
    doc,         \* the parsed document: its elements in document order
    links,       \* soup.find_all("a", href=True)
    github_links,\* the filtered href list
    lResult,     \* Optional href returned
    lpc,         \* "parse" | "filter" | "ret" | "done"
    \* ---- the value expression ----
    vLine,       \* a line of a metadata file holding a colon
    vOut,        \* Optional value computed from it
    vpc          \* "start" | "done"

mainVars   == <<fs, pc, dirIdx, todo, font_data, html_path, cur, abortCause, outFile, writes>>
readerVars == <<rEntries, rFile, rIdx, values, rResult, rpc>>
linkVars   == <<doc, links, github_links, lResult, lpc>>
valueVars  == <<vLine, vOut, vpc>>
vars       == <<mainVars, readerVars, linkVars, valueVars>>

----------------------------------------------------------------------------
(* Strings *)

None == <<>>
Some(x) == <<x>>

QUOTE == "\""
COLON == ":"
\* The characters str.strip() removes that occur in the modelled files.
Whitespace == {" ", "\n", "\t"}

\* s.startswith(p)
StartsWith(s, p) == Len(s) >= Len(p) /\ SubSeq(s, 1, Len(p)) = p

\* sub in s
Contains(s, sub) ==
    \E i \in 0..(Len(s) - Len(sub)) : SubSeq(s, i + 1, i + Len(sub)) = sub

\* Index of the first position of s (from 1) holding a character outside cs,
\* Len(s) + 1 when there is none.
FirstOutside(s, cs) ==
    IF \E i \in 1..Len(s) : s[i] \notin cs
    THEN CHOOSE i \in 1..Len(s) : s[i] \notin cs /\ \A j \in 1..(i - 1) : s[j] \in cs
    ELSE Len(s) + 1

\* Index of the last position of s holding a character outside cs, 0 when none.
LastOutside(s, cs) ==
    IF \E i \in 1..Len(s) : s[i] \notin cs
    THEN CHOOSE i \in 1..Len(s) : s[i] \notin cs /\ \A j \in (i + 1)..Len(s) : s[j] \in cs
    ELSE 0

\* s.strip(chars): every leading and every trailing character of cs is removed.
StripChars(s, cs) == SubSeq(s, FirstOutside(s, cs), LastOutside(s, cs))

\* s.split(":", 1)[1]: the text after the first colon (s holds a colon).
AfterFirstColon(s) == SubSeq(s, FirstOutside(s, {c \in {s[i] : i \in 1..Len(s)} : c # COLON}) + 1, Len(s))

\* Mutant: one quote character at most is removed from each end.
ExtractValueOneQuote(line) ==
    LET w == StripChars(AfterFirstColon(line), Whitespace)
        a == IF w # <<>> /\ w[1] = QUOTE THEN SubSeq(w, 2, Len(w)) ELSE w
    IN  IF a # <<>> /\ a[Len(a)] = QUOTE THEN SubSeq(a, 1, Len(a) - 1) ELSE a

\* line.split(":", 1)[1].strip().strip('"')
ExtractValue(line) == StripChars(StripChars(AfterFirstColon(line), Whitespace), {QUOTE})

----------------------------------------------------------------------------
(* Program constants *)

DIRS == <<"ofl", "apache", "ufl">>

ARTICLE_FILE == "ARTICLE.en_us.html"
DESC_FILE == "DESCRIPTION.en_us.html"

GITHUB == <<"g", "i", "t", "h", "u", "b", ".", "c", "o", "m">>
NameKey == <<"n", "a", "m", "e">>
DisplayKey == <<"d", "i", "s", "p", "l", "a", "y", "_", "n", "a", "m", "e">>
\* The fields main() requests, in its order.
MainEntries == <<NameKey, DisplayKey>>

EmptyStr == <<>>

----------------------------------------------------------------------------
(* The directory trees of Spec.  What a file holds is fixed by its category *)
(* and its place, so that entries built from different categories differ.   *)

FontNames == {"foo", "bar"}

Tag(c) == CASE c = "ofl" -> "O" [] c = "apache" -> "A" [] OTHER -> "U"

HTTPS == <<"h", "t", "t", "p", "s", ":", "/", "/">>
EXAMPLE == <<"e", "x", "a", "m", "p", "l", "e", ".", "o", "r", "g">>

Anchor(h) == [tag |-> "a", href |-> h]

\* The document of an HTML file in state st ("link" | "nolink") of category c;
\* which is "a" for the article file and "d" for the description file.
HtmlDoc(c, which, st) ==
    IF st = "link"
    THEN << Anchor(None),
            Anchor(Some(HTTPS \o EXAMPLE)),
            Anchor(Some(HTTPS \o GITHUB \o <<"/", Tag(c), "/", which>>)),
            Anchor(Some(HTTPS \o GITHUB \o <<"/", "z">>)) >>
    ELSE << Anchor(Some(HTTPS \o EXAMPLE)), Anchor(None) >>

\* The lines of a METADATA.pb of category c (nested fields are indented).
MetaLines(c) ==
    << NameKey \o <<":", " ", QUOTE, Tag(c), "n", QUOTE, "\n">>,
       <<"f", "o", "n", "t", "s", " ", "{", "\n">>,
       <<" ", " ">> \o NameKey \o <<":", " ", QUOTE, "x", QUOTE, "\n">>,
       <<"}", "\n">>,
       DisplayKey \o <<":", " ", QUOTE, Tag(c), "d", QUOTE, "\n">> >>

\* A metadata file: whether the path exists, its lines, how many of them the
\* for loop receives, and whether an exception is raised after those (good = 0
\* and raises: open() itself fails).
MetaFile(c, st) ==
    CASE st = "absent" -> [exists |-> FALSE, lines |-> <<>>, good |-> 0, raises |-> FALSE]
      [] st = "ok"     -> [exists |-> TRUE, lines |-> MetaLines(c), good |-> Len(MetaLines(c)), raises |-> FALSE]
      [] OTHER         -> [exists |-> TRUE, lines |-> MetaLines(c), good |-> 1, raises |-> TRUE]

NoEntry == [kind |-> "missing", article |-> "absent", desc |-> "absent", meta |-> "absent"]
PlainFile == [kind |-> "file", article |-> "absent", desc |-> "absent", meta |-> "absent"]
FontDir(a, d, m) == [kind |-> "dir", article |-> a, desc |-> d, meta |-> m]

\* What a category may hold under each name.
EntryChoices(n) ==
    IF n = "foo"
    THEN {NoEntry}
         \cup {FontDir("absent", d, "ok") : d \in {"absent", "link", "nolink"}}
         \cup {FontDir("link", d, "ok") : d \in {"absent", "link"}}
         \cup {FontDir("bad", "link", "ok")}
    ELSE {NoEntry, PlainFile, FontDir("absent", "absent", "absent"), FontDir("absent", "link", "fails")}

NoEntries == [n \in FontNames |-> NoEntry]

CategoryChoices ==
    {[kind |-> "absent", entries |-> NoEntries], [kind |-> "file", entries |-> NoEntries]}
    \cup {[kind |-> "dir", entries |-> e] : e \in {f \in [FontNames -> UNION {EntryChoices(n) : n \in FontNames}] : \A n \in FontNames : f[n] \in EntryChoices(n)}}

Trees == [{DIRS[i] : i \in 1..Len(DIRS)} -> CategoryChoices]

----------------------------------------------------------------------------
(* Filesystem queries *)

ArticlePath(dir_name, font_name) == <<dir_name, font_name, "article", ARTICLE_FILE>>
DescPath(dir_name, font_name) == <<dir_name, font_name, DESC_FILE>>

\* The state of the HTML file at path p in tree t.
HtmlState(t, p) ==
    IF t[p[1]].kind # "dir" THEN "absent"
    ELSE IF Len(p) = 4 THEN t[p[1]].entries[p[2]].article
    ELSE t[p[1]].entries[p[2]].desc

\* Path.exists()
PathExists(t, p) == HtmlState(t, p) # "absent"

\* Mutant: subdir.exists() -- plain files pass the test.
IsDirAnyEntry(t, c, n) == t[c].entries[n].kind # "missing"

\* subdir.is_dir()
IsDir(t, c, n) == t[c].entries[n].kind = "dir"

\* The names dir_path.iterdir() yields.
Listing(t, c) == {n \in FontNames : t[c].entries[n].kind # "missing"}

----------------------------------------------------------------------------
(* get_html_path *)

\* Mutant: the candidates are tried in the opposite order.
GetHtmlPathDescFirst(t, dir_name, font_name) ==
    IF PathExists(t, DescPath(dir_name, font_name)) THEN Some(DescPath(dir_name, font_name))
    ELSE IF PathExists(t, ArticlePath(dir_name, font_name)) THEN Some(ArticlePath(dir_name, font_name))
    ELSE None

GetHtmlPath(t, dir_name, font_name) ==
    IF PathExists(t, ArticlePath(dir_name, font_name)) THEN Some(ArticlePath(dir_name, font_name))
    ELSE IF PathExists(t, DescPath(dir_name, font_name)) THEN Some(DescPath(dir_name, font_name))
    ELSE None

----------------------------------------------------------------------------
(* extract_github_link *)

\* soup.find_all("a", href=True): the anchors that carry an href, in document order.
FindAll(d) == SelectSeq(d, LAMBDA e : e.tag = "a" /\ e.href # None)

\* [link["href"] for link in links if "github.com" in link["href"]]
GithubHrefs(ls) ==
    LET kept == SelectSeq(ls, LAMBDA e : Contains(e.href[1], GITHUB))
    IN  [i \in 1..Len(kept) |-> kept[i].href[1]]

\* Mutant: github_links[-1] -- the last match is returned.
LastOrNone(gl) == IF gl # <<>> THEN Some(gl[Len(gl)]) ELSE None

\* github_links[0] if github_links else None
FirstOrNone(gl) == IF gl # <<>> THEN Some(gl[1]) ELSE None

ExtractGithubLink(d) == FirstOrNone(GithubHrefs(FindAll(d)))

----------------------------------------------------------------------------
(* get_metadata_entries *)

\* Index of the first requested entry with line.startswith(entry + ":"), 0 when
\* there is none (the inner for loop up to its break).
FirstMatch(line, entries) ==
    IF \E i \in 1..Len(entries) : StartsWith(line, entries[i] \o <<COLON>>)
    THEN CHOOSE i \in 1..Len(entries) :
            /\ StartsWith(line, entries[i] \o <<COLON>>)
            /\ \A j \in 1..(i - 1) : ~StartsWith(line, entries[j] \o <<COLON>>)
    ELSE 0

\* values[entry] = value
DictSet(d, k, v) == [x \in (DOMAIN d) \cup {k} |-> IF x = k THEN v ELSE d[x]]

\* Mutant: a field already recorded is not overwritten.
ProcessLineKeepFirst(vals, line, entries) ==
    IF FirstMatch(line, entries) = 0 \/ entries[FirstMatch(line, entries)] \in DOMAIN vals THEN vals
    ELSE DictSet(vals, entries[FirstMatch(line, entries)], ExtractValue(line))

\* The body of "for line in f" for one line.
ProcessLine(vals, line, entries) ==
    IF FirstMatch(line, entries) = 0 THEN vals
    ELSE DictSet(vals, entries[FirstMatch(line, entries)], ExtractValue(line))

\* The for loop over the lines it receives.
RECURSIVE ReadLines(_, _, _)
ReadLines(vals, lines, entries) ==
    IF lines = <<>> THEN vals
    ELSE ReadLines(ProcessLine(vals, Head(lines), entries), Tail(lines), entries)

\* except Exception: pass -- the dict keeps what was recorded.
OnReadException(vals) == vals

\* Mutant: [values[entry] for entry in entries if entry in values]
ReturnListFoundOnly(vals, entries) ==
    LET found == SelectSeq(entries, LAMBDA e : e \in DOMAIN vals)
    IN  [i \in 1..Len(found) |-> vals[found[i]]]

\* [values.get(entry, "") for entry in entries]
ReturnList(vals, entries) ==
    [i \in 1..Len(entries) |-> IF entries[i] \in DOMAIN vals THEN vals[entries[i]] ELSE EmptyStr]

\* [""] * len(entries)
Defaults(entries) == [i \in 1..Len(entries) |-> EmptyStr]

GetMetadataEntries(file, entries) ==
    IF ~file.exists THEN Defaults(entries)
    ELSE LET vals == ReadLines(<<>>, SubSeq(file.lines, 1, file.good), entries)
         IN  ReturnList(IF file.raises THEN OnReadException(vals) ELSE vals, entries)

----------------------------------------------------------------------------
(* main *)

DirName == DIRS[dirIdx]

\* The outer loop has run through DIRS.
ScanFinished == dirIdx > Len(DIRS)

\* Mutant: font_data.setdefault(font_name, {...}) -- the first entry stays.
StoreEntryKeepFirst(data, font_name, entry) ==
    [k \in (DOMAIN data) \cup {font_name} |-> IF k \in DOMAIN data THEN data[k] ELSE entry]

\* font_data[font_name] = {...}
StoreEntry(data, font_name, entry) ==
    [k \in (DOMAIN data) \cup {font_name} |-> IF k = font_name THEN entry ELSE data[k]]

\* Lines 90-94: the link of a font whose HTML file can be read.
LinkOf(t, dir_name, font_name) ==
    LET hp == GetHtmlPath(t, dir_name, font_name)
        extracted == IF hp = None THEN None
                     ELSE ExtractGithubLink(HtmlDoc(dir_name, IF Len(hp[1]) = 4 THEN "a" ELSE "d", HtmlState(t, hp[1])))
    IN  IF extracted # None /\ extracted[1] # EmptyStr THEN extracted[1] ELSE EmptyStr

\* subdir / "METADATA.pb": the metadata file of a font directory.
MetaOf(t, dir_name, font_name) == MetaFile(dir_name, t[dir_name].entries[font_name].meta)

\* Lines 96-105: the entry of a font.
BuildEntry(t, dir_name, font_name) ==
    LET vals == GetMetadataEntries(MetaOf(t, dir_name, font_name), MainEntries)
    IN  [name |-> vals[1], display_name |-> vals[2], link |-> LinkOf(t, dir_name, font_name)]

\* Mutant: no except clause -- the exception leaves the reader.
ReaderPropagatesUncaught(file) == file.exists /\ file.raises

\* Whether an exception raised while the file is read leaves
\* get_metadata_entries: the try block of lines 55-65 catches Exception.
ReaderPropagates(file) == FALSE

\* open(html_path) or f.read() raises in extract_github_link.
HtmlRaises(t, dir_name, font_name) ==
    LET hp == GetHtmlPath(t, dir_name, font_name)
    IN  hp # None /\ HtmlState(t, hp[1]) = "bad"

readerIdle ==
    /\ rEntries = <<>> /\ rFile = MetaFile("ofl", "absent") /\ rIdx = 0
    /\ values = <<>> /\ rResult = <<>> /\ rpc = "idle"
linkIdle == doc = <<>> /\ links = <<>> /\ github_links = <<>> /\ lResult = None /\ lpc = "idle"
valueIdle == vLine = <<>> /\ vOut = None /\ vpc = "idle"
mainIdle ==
    /\ fs = [c \in {DIRS[i] : i \in 1..Len(DIRS)} |-> [kind |-> "absent", entries |-> NoEntries]]
    /\ pc = "idle" /\ dirIdx = 1 /\ todo = {} /\ font_data = <<>> /\ html_path = None
    /\ cur = <<>> /\ abortCause = "none" /\ outFile = None /\ writes = 0

Init ==
    /\ fs \in Trees
    /\ pc = "scan" /\ dirIdx = 1 /\ todo = {} /\ font_data = <<>> /\ html_path = None
    /\ cur = <<>> /\ abortCause = "none" /\ outFile = None /\ writes = 0
    /\ readerIdle /\ linkIdle /\ valueIdle

\* Lines 78-82: the category does not exist.
SkipMissingCategory ==
    /\ pc = "scan" /\ ~ScanFinished
    /\ fs[DirName].kind = "absent"
    /\ dirIdx' = dirIdx + 1
    /\ UNCHANGED <<fs, pc, todo, font_data, html_path, cur, abortCause, outFile, writes>>

\* Line 84: iterdir() of an existing directory.
ListCategory ==
    /\ pc = "scan" /\ ~ScanFinished
    /\ fs[DirName].kind = "dir"
    /\ todo' = Listing(fs, DirName)
    /\ pc' = "iter"
    /\ UNCHANGED <<fs, dirIdx, font_data, html_path, cur, abortCause, outFile, writes>>

\* Line 84: the category path exists but is no directory; iterdir() raises.
ListCategoryRaises ==
    /\ pc = "scan" /\ ~ScanFinished
    /\ fs[DirName].kind = "file"
    /\ pc' = "aborted" /\ abortCause' = "iterdir"
    /\ UNCHANGED <<fs, dirIdx, todo, font_data, html_path, cur, outFile, writes>>

\* Lines 85-86: an entry that is no directory.
SkipNonDir ==
    /\ pc = "iter"
    /\ \E n \in todo :
        /\ ~IsDir(fs, DirName, n)
        /\ todo' = todo \ {n}
    /\ UNCHANGED <<fs, pc, dirIdx, font_data, html_path, cur, abortCause, outFile, writes>>

\* Lines 88-108: the loop body for a font directory.
ProcessFont ==
    /\ pc = "iter"
    /\ \E n \in todo :
        /\ IsDir(fs, DirName, n)
        /\ ~HtmlRaises(fs, DirName, n)
        /\ ~ReaderPropagates(MetaOf(fs, DirName, n))
        /\ html_path' = GetHtmlPath(fs, DirName, n)
        /\ cur' = <<DirName, n>>
        /\ font_data' = StoreEntry(font_data, n, BuildEntry(fs, DirName, n))
        /\ todo' = todo \ {n}
    /\ UNCHANGED <<fs, pc, dirIdx, abortCause, outFile, writes>>

\* Lines 88-97: a call of the loop body raises and main has no handler:
\* extract_github_link (line 92) or, were it to let one out, the reader (line 97).
ProcessFontRaises ==
    /\ pc = "iter"
    /\ \E n \in todo :
        /\ IsDir(fs, DirName, n)
        /\ HtmlRaises(fs, DirName, n) \/ ReaderPropagates(MetaOf(fs, DirName, n))
        /\ html_path' = GetHtmlPath(fs, DirName, n)
        /\ cur' = <<DirName, n>>
        /\ abortCause' = IF HtmlRaises(fs, DirName, n) THEN "html" ELSE "metadata"
    /\ pc' = "aborted"
    /\ UNCHANGED <<fs, dirIdx, todo, font_data, outFile, writes>>

\* Line 84: the inner loop is exhausted.
EndCategory ==
    /\ pc = "iter" /\ todo = {}
    /\ pc' = "scan" /\ dirIdx' = dirIdx + 1
    /\ UNCHANGED <<fs, todo, font_data, html_path, cur, abortCause, outFile, writes>>

\* Mutant: the write block is indented into the outer loop -- the file is written
\* at the end of every category.
WriteOutputInLoop ==
    /\ pc = "iter" /\ todo = {}
    /\ writes' = writes + 1
    /\ outFile' = Some(font_data)
    /\ pc' = "scan" /\ dirIdx' = dirIdx + 1
    /\ UNCHANGED <<fs, todo, font_data, html_path, cur, abortCause>>

\* Lines 111-117: the registry is serialised to the output path.  The content is
\* kept as the mapping json.dump receives.
WriteOutput ==
    /\ pc = "scan" /\ ScanFinished
    /\ writes' = writes + 1
    /\ outFile' = Some(font_data)
    /\ pc' = "done"
    /\ UNCHANGED <<fs, dirIdx, todo, font_data, html_path, cur, abortCause>>

\* Lines 112-114: mkdir or open raises (nothing is written), or json.dump raises
\* after the file was opened for writing (no complete registry is on disk).
WriteRaises ==
    /\ pc = "scan" /\ ScanFinished
    /\ \E opened \in BOOLEAN : writes' = writes + (IF opened THEN 1 ELSE 0)
    /\ pc' = "aborted" /\ abortCause' = "write"
    /\ UNCHANGED <<fs, dirIdx, todo, font_data, html_path, cur, outFile>>

Next ==
    \/ (SkipMissingCategory /\ UNCHANGED <<readerVars, linkVars, valueVars>>)
    \/ (ListCategory /\ UNCHANGED <<readerVars, linkVars, valueVars>>)
    \/ (ListCategoryRaises /\ UNCHANGED <<readerVars, linkVars, valueVars>>)
    \/ (SkipNonDir /\ UNCHANGED <<readerVars, linkVars, valueVars>>)
    \/ (ProcessFont /\ UNCHANGED <<readerVars, linkVars, valueVars>>)
    \/ (ProcessFontRaises /\ UNCHANGED <<readerVars, linkVars, valueVars>>)
    \/ (EndCategory /\ UNCHANGED <<readerVars, linkVars, valueVars>>)
    \/ (WriteOutput /\ UNCHANGED <<readerVars, linkVars, valueVars>>)
    \/ (WriteRaises /\ UNCHANGED <<readerVars, linkVars, valueVars>>)

Spec == Init /\ [][Next]_vars

----------------------------------------------------------------------------
(* Claims about main (checked under Spec) *)

Categories == {DIRS[i] : i \in 1..Len(DIRS)}

\* Category number i exists as a directory and holds font directory f.
HoldsFont(t, i, f) == t[DIRS[i]].kind = "dir" /\ t[DIRS[i]].entries[f].kind = "dir"

\* The categories (by index) holding font directory f.
HoldersOf(t, f) == {i \in 1..Len(DIRS) : HoldsFont(t, i, f)}

\* The category of DIRS processed last among those holding f.
LastHolder(t, f) == CHOOSE i \in HoldersOf(t, f) : \A j \in HoldersOf(t, f) : j <= i

\* What the files of a font directory say, read off the tree: the name and the
\* display name of its METADATA.pb and the first GitHub link of its HTML file.
ExpectedEntry(t, c, f) ==
    LET e == t[c].entries[f]
    IN  [name |-> IF e.meta = "absent" THEN EmptyStr ELSE <<Tag(c), "n">>,
         display_name |-> IF e.meta = "ok" THEN <<Tag(c), "d">> ELSE EmptyStr,
         link |-> IF e.article = "link" THEN HTTPS \o GITHUB \o <<"/", Tag(c), "/", "a">>
                  ELSE IF e.article = "absent" /\ e.desc = "link" THEN HTTPS \o GITHUB \o <<"/", Tag(c), "/", "d">>
                  ELSE EmptyStr]

\* C1: when a font identifier is a subdirectory of more than one existing
\* category, its entry in the final registry (in memory and in the file written)
\* is exactly the entry built from the category processed last in the order
\* ofl, apache, ufl: name, display_name and link all come from that category.
C1_LastCategoryWins ==
    pc = "done" =>
        \A f \in FontNames :
            Cardinality(HoldersOf(fs, f)) >= 2 =>
                /\ f \in DOMAIN font_data
                /\ font_data[f] = ExpectedEntry(fs, DIRS[LastHolder(fs, f)], f)
                /\ outFile = Some(font_data)

\* A finished run in which foo is held by two categories whose entries differ in
\* all three fields.
C1_Witness ==
    /\ pc = "done"
    /\ \E i, j \in HoldersOf(fs, "foo") :
        /\ i < j /\ j = LastHolder(fs, "foo")
        /\ ExpectedEntry(fs, DIRS[i], "foo").name # font_data["foo"].name
        /\ ExpectedEntry(fs, DIRS[i], "foo").display_name # font_data["foo"].display_name
        /\ ExpectedEntry(fs, DIRS[i], "foo").link # EmptyStr
        /\ font_data["foo"].link # EmptyStr
        /\ ExpectedEntry(fs, DIRS[i], "foo").link # font_data["foo"].link

\* C3 (as claimed): no failure confined to one font aborts the run -- a run never
\* aborts because the HTML file of a font cannot be read or decoded.
C3_FontFailureNeverAborts == ~(pc = "aborted" /\ abortCause = "html")

\* C4: after a run that completes, the key set of the registry is exactly the set
\* of names of the subdirectories of the categories that exist: absent categories
\* and non-directory entries contribute nothing, every subdirectory contributes.
C4_KeySet ==
    pc = "done" =>
        DOMAIN font_data =
            {n \in FontNames : \E c \in Categories : fs[c].kind = "dir" /\ fs[c].entries[n].kind = "dir"}

\* A finished run over a tree with an absent category, a plain file in a category
\* and a font directory holding no description and no metadata file.
C4_Witness ==
    /\ pc = "done"
    /\ fs["ofl"].kind = "absent"
    /\ fs["apache"].kind = "dir" /\ fs["apache"].entries["bar"] = PlainFile
    /\ fs["apache"].entries["foo"] = FontDir("absent", "nolink", "ok")
    /\ fs["ufl"].kind = "dir" /\ fs["ufl"].entries["bar"] = FontDir("absent", "absent", "absent")
    /\ DOMAIN font_data = {"foo", "bar"}

\* C5: get_html_path returns the article path when it exists, else the
\* description path when it exists, else nothing; and when it returns nothing the
\* link stored for the font is the empty string.
C5_PathResolver ==
    cur # <<>> =>
        LET a == ArticlePath(cur[1], cur[2])
            d == DescPath(cur[1], cur[2])
            e == fs[cur[1]].entries[cur[2]]
        IN  /\ e.article # "absent" => html_path = Some(a)
            /\ (e.article = "absent" /\ e.desc # "absent") => html_path = Some(d)
            /\ (e.article = "absent" /\ e.desc = "absent") =>
                    /\ html_path = None
                    /\ abortCause \notin {"html", "metadata"}
                    /\ font_data[cur[2]].link = EmptyStr

\* The loop body has just run for a font holding both files, and the link stored
\* is the article's.
C5_Witness ==
    /\ cur # <<>> /\ pc = "iter"
    /\ fs[cur[1]].entries[cur[2]].article = "link"
    /\ fs[cur[1]].entries[cur[2]].desc = "link"
    /\ html_path = Some(ArticlePath(cur[1], cur[2]))
    /\ font_data[cur[2]].link = HTTPS \o GITHUB \o <<"/", Tag(cur[1]), "/", "a">>

\* The tree with every failing metadata file replaced by the same file read
\* without an exception.
Healed(t) ==
    [c \in Categories |->
        [t[c] EXCEPT !.entries =
            [n \in FontNames |-> IF t[c].entries[n].meta = "fails"
                                 THEN [t[c].entries[n] EXCEPT !.meta = "ok"]
                                 ELSE t[c].entries[n]]]]

\* The metadata file of the font's deciding directory raises while it is read.
MetaFails(t, f) == HoldersOf(t, f) # {} /\ t[DIRS[LastHolder(t, f)]].entries[f].meta = "fails"

\* C9: an exception raised while an existing metadata file is read never leaves
\* the reader: the run does not abort on it, the font gets the values recorded
\* before the exception and empty strings for the other fields, the builder goes
\* on, and every other font has the entry it would have without the exception.
C9_ReaderExceptionSwallowed ==
    /\ abortCause # "metadata"
    /\ (cur # <<>> /\ pc # "aborted" /\ fs[cur[1]].entries[cur[2]].meta = "fails") =>
            /\ font_data[cur[2]].name = <<Tag(cur[1]), "n">>
            /\ font_data[cur[2]].display_name = EmptyStr
    /\ pc = "done" =>
            \A f \in FontNames :
                (HoldersOf(fs, f) # {} /\ ~MetaFails(fs, f)) =>
                    font_data[f] = ExpectedEntry(Healed(fs), DIRS[LastHolder(fs, f)], f)

\* A finished run in which the metadata file of bar raised in the first category
\* and foo was processed in a later one.
C9_Witness ==
    /\ pc = "done"
    /\ fs["ofl"].kind = "dir" /\ fs["ofl"].entries["bar"].meta = "fails"
    /\ HoldersOf(fs, "bar") = {1}
    /\ font_data["bar"].name = <<"O", "n">> /\ font_data["bar"].display_name = EmptyStr
    /\ HoldersOf(fs, "foo") = {2}
    /\ font_data["foo"].name = <<"A", "n">>

\* C10: the output file is written at most once and only after every category
\* was processed; the registry starts empty, nothing is written while the scan
\* is in progress, and a run that aborts during the scan writes nothing.
C10_WriteOnceAtEnd ==
    /\ writes <= 1
    /\ (pc = "scan" /\ dirIdx = 1) => font_data = <<>>
    /\ (writes > 0 \/ outFile # None) => (dirIdx > Len(DIRS) /\ pc \in {"done", "aborted"})
    /\ pc \in {"scan", "iter"} => (writes = 0 /\ outFile = None)
    /\ (pc = "aborted" /\ abortCause # "write") => (writes = 0 /\ outFile = None)
    /\ pc = "done" => (writes = 1 /\ outFile = Some(font_data))

\* A run that processed a font and wrote the registry.
C10_Witness == pc = "done" /\ writes = 1 /\ DOMAIN font_data = {"foo", "bar"} /\ outFile = Some(font_data)

----------------------------------------------------------------------------
(* get_metadata_entries, line by line (SpecReader) *)

MaxEntries == 2
MaxLines == 3

\* All sequences over S of length at most n.
SeqsUpTo(S, n) == UNION {[1..k -> S] : k \in 0..n}

RNames == {NameKey, DisplayKey}
RValues == {<<QUOTE, "a", QUOTE>>, <<"b">>}

\* Field lines of both names, an indented field line and a line with no colon
\* after the name.
RLines ==
    {k \o <<":", " ">> \o v \o <<"\n">> : k \in RNames, v \in RValues}
    \cup {<<" ">> \o NameKey \o <<":", "z", "\n">>, NameKey \o <<" ", "z", "\n">>}

\* The files: a missing path, or lines of which the loop receives the first
\* good, all of them unless an exception is raised.
RFiles ==
    {MetaFile("ofl", "absent")}
    \cup {[exists |-> TRUE, lines |-> ls, good |-> g, raises |-> r] :
            ls \in SeqsUpTo(RLines, MaxLines), g \in 0..MaxLines, r \in BOOLEAN}

InitReader ==
    /\ rEntries \in SeqsUpTo(RNames, MaxEntries)
    /\ rFile \in RFiles
    /\ rFile.good <= Len(rFile.lines)
    /\ ~rFile.raises => rFile.good = Len(rFile.lines)
    /\ rIdx = 0 /\ values = <<>> /\ rResult = <<>> /\ rpc = "start"
    /\ mainIdle /\ linkIdle /\ valueIdle

\* Lines 52-53: the path does not exist.
ReaderMissing ==
    /\ rpc = "start" /\ ~rFile.exists
    /\ rResult' = Defaults(rEntries)
    /\ rpc' = "done"
    /\ UNCHANGED <<rEntries, rFile, rIdx, values>>

\* Lines 54-56: the path exists; the try block is entered.
ReaderEnter ==
    /\ rpc = "start" /\ rFile.exists
    /\ values' = <<>>
    /\ rpc' = "loop"
    /\ UNCHANGED <<rEntries, rFile, rIdx, rResult>>

\* Lines 57-63: one line of the file.
ReadLine ==
    /\ rpc = "loop" /\ rIdx < rFile.good
    /\ values' = ProcessLine(values, rFile.lines[rIdx + 1], rEntries)
    /\ rIdx' = rIdx + 1
    /\ UNCHANGED <<rEntries, rFile, rResult, rpc>>

\* Lines 64-65: open() or the read raises; the exception is swallowed.
ReadRaises ==
    /\ rpc = "loop" /\ rIdx = rFile.good /\ rFile.raises
    /\ values' = OnReadException(values)
    /\ rpc' = "ret"
    /\ UNCHANGED <<rEntries, rFile, rIdx, rResult>>

\* Line 57: the file is exhausted.
ReadEnd ==
    /\ rpc = "loop" /\ rIdx = rFile.good /\ ~rFile.raises
    /\ rpc' = "ret"
    /\ UNCHANGED <<rEntries, rFile, rIdx, values, rResult>>

\* Line 66
ReaderReturn ==
    /\ rpc = "ret"
    /\ rResult' = ReturnList(values, rEntries)
    /\ rpc' = "done"
    /\ UNCHANGED <<rEntries, rFile, rIdx, values>>

NextReader ==
    \/ (ReaderMissing /\ UNCHANGED <<mainVars, linkVars, valueVars>>)
    \/ (ReaderEnter /\ UNCHANGED <<mainVars, linkVars, valueVars>>)
    \/ (ReadLine /\ UNCHANGED <<mainVars, linkVars, valueVars>>)
    \/ (ReadRaises /\ UNCHANGED <<mainVars, linkVars, valueVars>>)
    \/ (ReadEnd /\ UNCHANGED <<mainVars, linkVars, valueVars>>)
    \/ (ReaderReturn /\ UNCHANGED <<mainVars, linkVars, valueVars>>)

SpecReader == InitReader /\ [][NextReader]_vars

----------------------------------------------------------------------------
(* Claims about get_metadata_entries (checked under SpecReader) *)

\* The lines among the first n of the file that start with the i-th requested
\* field name immediately followed by a colon.
MatchingLines(i, n) ==
    {k \in 1..n : StartsWith(rFile.lines[k], rEntries[i] \o <<COLON>>)}

MinOf(S) == CHOOSE x \in S : \A y \in S : x <= y
MaxOf(S) == CHOOSE x \in S : \A y \in S : y <= x

\* C2 (as claimed): when several lines start with a requested field name and a
\* colon, the value returned for the field is taken from the first such line.
C2_FirstLineWins ==
    (rpc = "done" /\ rFile.exists /\ ~rFile.raises) =>
        \A i \in 1..Len(rEntries) :
            Cardinality(MatchingLines(i, Len(rFile.lines))) >= 2 =>
                rResult[i] = ExtractValue(rFile.lines[MinOf(MatchingLines(i, Len(rFile.lines)))])

\* C2 (amended): the value returned for a requested field is taken from the
\* last line read that starts with the field name and a colon; earlier lines for
\* the same field are overwritten.
C2_LastLineWins ==
    (rpc = "done" /\ rFile.exists) =>
        \A i \in 1..Len(rEntries) :
            MatchingLines(i, rFile.good) # {} =>
                rResult[i] = ExtractValue(rFile.lines[MaxOf(MatchingLines(i, rFile.good))])

\* The reader returned for a file whose first and last lines are name lines with
\* different values, and the value returned is the last line's.
C2_Witness ==
    /\ rpc = "done" /\ rFile.exists /\ ~rFile.raises
    /\ rEntries = <<NameKey, DisplayKey>>
    /\ rFile.lines = << NameKey \o <<":", " ", QUOTE, "a", QUOTE, "\n">>,
                        DisplayKey \o <<":", " ", QUOTE, "a", QUOTE, "\n">>,
                        NameKey \o <<":", " ", "b", "\n">> >>
    /\ rResult = << <<"b">>, <<"a">> >>

\* C7: the list returned has the length of the request; its i-th element is a
\* value of the i-th requested field (taken from a line that starts with that
\* name and a colon) or the empty string, the empty string when no line of the
\* file matches the field, and a value when a line matches and the whole file
\* was read; for a path that does not exist every element is the empty string.
C7_SameLengthOrdered ==
    rpc = "done" =>
        /\ Len(rResult) = Len(rEntries)
        /\ \A i \in 1..Len(rEntries) :
            /\ MatchingLines(i, Len(rFile.lines)) = {} => rResult[i] = EmptyStr
            /\ \/ rResult[i] = EmptyStr
               \/ \E k \in MatchingLines(i, Len(rFile.lines)) : rResult[i] = ExtractValue(rFile.lines[k])
            /\ (MatchingLines(i, Len(rFile.lines)) # {} /\ ~rFile.raises) =>
                    \E k \in MatchingLines(i, Len(rFile.lines)) : rResult[i] = ExtractValue(rFile.lines[k])
            /\ ~rFile.exists => rResult[i] = EmptyStr

\* The reader returned for a request of two fields of which only the second has
\* a line in the file.
C7_Witness ==
    /\ rpc = "done" /\ rFile.exists /\ ~rFile.raises
    /\ rEntries = <<DisplayKey, NameKey>>
    /\ rFile.lines = << NameKey \o <<":", " ", "b", "\n">>, <<" ">> \o NameKey \o <<":", "z", "\n">> >>
    /\ rResult = << EmptyStr, <<"b">> >>

----------------------------------------------------------------------------
(* extract_github_link, statement by statement (SpecLink) *)

MaxElements == 4

\* href values: empty, another host, two GitHub targets, a host that holds
\* github.com inside a longer name, and a near miss.
GithubA == HTTPS \o GITHUB \o <<"/", "a">>
GithubB == HTTPS \o GITHUB \o <<"/", "b">>
GithubInside == <<"x">> \o GITHUB \o <<".", "y">>
NearMiss == SubSeq(GITHUB, 1, Len(GITHUB) - 1)
Hrefs == {EmptyStr, HTTPS \o EXAMPLE, GithubA, GithubB, GithubInside, NearMiss}

\* Anchors with and without href, and an element that is no anchor but carries
\* a GitHub href.
Elements ==
    {Anchor(None)} \cup {Anchor(Some(h)) : h \in Hrefs}
    \cup {[tag |-> "link", href |-> Some(GithubB)]}

InitLink ==
    /\ doc \in SeqsUpTo(Elements, MaxElements)
    /\ links = <<>> /\ github_links = <<>> /\ lResult = None /\ lpc = "parse"
    /\ mainIdle /\ readerIdle /\ valueIdle

\* Lines 39-40
LinkFindAll ==
    /\ lpc = "parse"
    /\ links' = FindAll(doc)
    /\ lpc' = "filter"
    /\ UNCHANGED <<doc, github_links, lResult>>

\* Line 41
LinkFilter ==
    /\ lpc = "filter"
    /\ github_links' = GithubHrefs(links)
    /\ lpc' = "ret"
    /\ UNCHANGED <<doc, links, lResult>>

\* Lines 42-44
LinkReturn ==
    /\ lpc = "ret"
    /\ lResult' = FirstOrNone(github_links)
    /\ lpc' = "done"
    /\ UNCHANGED <<doc, links, github_links>>

NextLink ==
    \/ (LinkFindAll /\ UNCHANGED <<mainVars, readerVars, valueVars>>)
    \/ (LinkFilter /\ UNCHANGED <<mainVars, readerVars, valueVars>>)
    \/ (LinkReturn /\ UNCHANGED <<mainVars, readerVars, valueVars>>)

SpecLink == InitLink /\ [][NextLink]_vars

\* The positions of the anchors of the document that carry an href holding
\* github.com.
GithubAnchors ==
    {i \in 1..Len(doc) : doc[i].tag = "a" /\ doc[i].href \in {Some(GithubA), Some(GithubB), Some(GithubInside)}}

\* C6: the link returned is the href of the first anchor, in document order,
\* among the anchors with an href that holds github.com; anchors without href
\* and anchors whose href lacks it are skipped wherever they stand, and nothing
\* is returned when no anchor matches.
C6_FirstGithubAnchor ==
    lpc = "done" =>
        IF GithubAnchors = {} THEN lResult = None
        ELSE lResult = Some(doc[MinOf(GithubAnchors)].href[1])

\* A document with an anchor without href, an anchor to another host and two
\* GitHub anchors; the first of the two is returned.
C6_Witness ==
    /\ lpc = "done"
    /\ doc = <<Anchor(None), Anchor(Some(HTTPS \o EXAMPLE)), Anchor(Some(GithubB)), Anchor(Some(GithubA))>>
    /\ lResult = Some(GithubB)

----------------------------------------------------------------------------
(* The value expression of line 61 (SpecValue) *)

MaxValueLen == 6

ValueChars == {QUOTE, "x", " ", ":", "\n"}

InitValue ==
    /\ vLine \in {NameKey \o <<COLON>> \o v : v \in SeqsUpTo(ValueChars, MaxValueLen)}
    /\ vOut = None /\ vpc = "start"
    /\ mainIdle /\ readerIdle /\ linkIdle

\* Line 61
ValueExtract ==
    /\ vpc = "start"
    /\ vOut' = Some(ExtractValue(vLine))
    /\ vpc' = "done"
    /\ UNCHANGED vLine

NextValue == ValueExtract /\ UNCHANGED <<mainVars, readerVars, linkVars>>

SpecValue == InitValue /\ [][NextValue]_vars

\* r is s without a prefix and a suffix made of characters of cs only, and
\* neither end of r is a character of cs: every such character at either end
\* of s is gone.
IsStripOf(r, s, cs) ==
    \E i \in 0..Len(s) : \E j \in 0..(Len(s) - i) :
        /\ \A k \in 1..i : s[k] \in cs
        /\ \A k \in (Len(s) - j + 1)..Len(s) : s[k] \in cs
        /\ r = SubSeq(s, i + 1, Len(s) - j)
        /\ r # <<>> => (r[1] \notin cs /\ r[Len(r)] \notin cs)

\* r is s without at most one leading and at most one trailing character of cs.
IsStripOneOf(r, s, cs) ==
    LET a == IF s # <<>> /\ s[1] \in cs THEN SubSeq(s, 2, Len(s)) ELSE s
    IN  r = IF a # <<>> /\ a[Len(a)] \in cs THEN SubSeq(a, 1, Len(a) - 1) ELSE a

\* The text of the line after its first colon.
TextAfterFirstColon ==
    LET p == MinOf({k \in 1..Len(vLine) : vLine[k] = COLON})
    IN  SubSeq(vLine, p + 1, Len(vLine))

\* C8 (as claimed): the value is the text after the first colon, stripped of
\* surrounding whitespace, less at most one double quote at the start and at
\* most one at the end.
C8_OneQuoteEachEnd ==
    vpc = "done" =>
        \E w \in {StripChars(TextAfterFirstColon, Whitespace)} :
            /\ IsStripOf(w, TextAfterFirstColon, Whitespace)
            /\ IsStripOneOf(vOut[1], w, {QUOTE})

\* C8 (amended): the value is the text after the first colon, stripped of
\* surrounding whitespace, less every double quote at the start and every one
\* at the end; quote characters inside the value are kept.
C8_AllQuotesBothEnds ==
    vpc = "done" =>
        \E w \in {StripChars(TextAfterFirstColon, Whitespace)} :
            /\ IsStripOf(w, TextAfterFirstColon, Whitespace)
            /\ IsStripOf(vOut[1], w, {QUOTE})

\* A value wrapped in two quotes at the start, holding a quote inside.
C8_Witness ==
    /\ vpc = "done"
    /\ vLine = NameKey \o <<COLON, " ", QUOTE, QUOTE, "x", QUOTE, "x">>
    /\ vOut = Some(<<"x", QUOTE, "x">>)

====
